---- MODULE Spec2Model ----
(***************************************************************************)
(* Model of the SkillChain ledger of src/app.py: the JSON ledger file, the *)
(* helpers that read and write it, and the page handlers (issue, verify by *)
(* upload, verify by payload or hash, view ledger) run by browser sessions *)
(* that share the one file.                                                *)
(*                                                                         *)
(* The file is a sequence of tokens: the opening of the document, one      *)
(* token per block, the closing of the document.  open(path, "w")          *)
(* truncates it, every write lays a chunk at the writer's own offset, and  *)
(* a reader takes the content as it is at the moment of the read.          *)
(*                                                                         *)
(* The Home branch of the script (lines 105-108) is mis-indented in the    *)
(* source; the helpers and the other handlers are modelled as they read.   *)
(***************************************************************************)
EXTENDS Integers, Sequences, FiniteSets, TLC

\* ------------------------------------------------------------------ bounds
MaxIssues == 2
MaxClock == 1

Sessions == {"s1", "s2"}
Bytes == {<<1>>, <<2>>}
Issuers == {"Demo Institution"}
Filenames == {"cert.pdf"}

VARIABLES
    file,       \* content of ledger.json, or NoFile
    clock,      \* datetime.utcnow()
    pc,         \* per session: position in the script run
    phase,      \* per session: which ensure_ledger call is running
    op,         \* per session: the page and button of the run
    arg,        \* per session: the inputs of the run
    buf,        \* per session: the text being written by the open writer
    off,        \* per session: the writer's file offset
    wret,       \* per session: where the run continues after the write
    pending,    \* per session: the block of the issue in progress
    nIssues,    \* issue runs started
    result,     \* per session: what the run shows at its end
    issued,     \* history: the issues that reported success, in order
    persisted,  \* history: the block list of the last complete ledger file
    tampered    \* the file was edited from outside the program

vars == <<file, clock, pc, phase, op, arg, buf, off, wret, pending, nIssues,
          result, issued, persisted, tampered>>

\* ----------------------------------------------------------------- values
NoFile == <<<<"absent">>>>
Nul == <<"nul">>
Open == <<"open">>
Close == <<"close">>

ZeroHash == <<"0">>
BogusHash == <<"f">>

Sha256(b) == <<"sha256", b>>

sha256_bytes(b) == Sha256(b)

\* json.dumps(body, sort_keys=True): the fields in key order
CanonicalEncode(body) ==
    << <<"fileHash", body.fileHash>>, <<"filename", body.filename>>,
       <<"index", body.index>>, <<"issuer", body.issuer>>,
       <<"prevHash", body.prevHash>>, <<"timestamp", body.timestamp>> >>

BodyOf(blk) ==
    [index |-> blk.index, timestamp |-> blk.timestamp, issuer |-> blk.issuer,
     filename |-> blk.filename, fileHash |-> blk.fileHash,
     prevHash |-> blk.prevHash]

BlockDigest(body) == Sha256(CanonicalEncode(body))

\* make_block that forgets the link to the previous block
make_block_unlinked(index, fileHash, prevHash, issuer, filename, now) ==
    LET body == [index |-> index, timestamp |-> now, issuer |-> issuer,
                 filename |-> filename, fileHash |-> fileHash,
                 prevHash |-> ZeroHash]
    IN  [index |-> body.index, timestamp |-> body.timestamp,
         issuer |-> body.issuer, filename |-> body.filename,
         fileHash |-> body.fileHash, prevHash |-> body.prevHash,
         blockHash |-> BlockDigest(body)]

make_block(index, fileHash, prevHash, issuer, filename, now) ==
    LET body == [index |-> index, timestamp |-> now, issuer |-> issuer,
                 filename |-> filename, fileHash |-> fileHash,
                 prevHash |-> prevHash]
    IN  [index |-> body.index, timestamp |-> body.timestamp,
         issuer |-> body.issuer, filename |-> body.filename,
         fileHash |-> body.fileHash, prevHash |-> body.prevHash,
         blockHash |-> BlockDigest(body)]

NoBlock ==
    [index |-> -1, timestamp |-> -1, issuer |-> "", filename |-> "",
     fileHash |-> BogusHash, prevHash |-> BogusHash, blockHash |-> BogusHash]

last_block_hash(blocks) ==
    IF blocks = <<>> THEN ZeroHash ELSE blocks[Len(blocks)].blockHash

\* ------------------------------------------------------------- the file
\* json.dump(ledger, f): the text of a ledger
Serialize(blocks) ==
    <<Open>> \o [i \in 1..Len(blocks) |-> <<"blk", blocks[i]>>] \o <<Close>>

\* json.load accepts exactly a complete document
WellFormed(c) ==
    /\ c # NoFile
    /\ Len(c) >= 2
    /\ c[1][1] = "open"
    /\ c[Len(c)][1] = "close"
    /\ \A i \in 2..(Len(c) - 1) : c[i][1] = "blk"

Parse(c) == [i \in 1..(Len(c) - 2) |-> c[i + 1][2]]

\* write(2) of chunk at offset o; a write past the end leaves a hole
WriteAt(c, o, chunk) ==
    LET n == IF Len(c) > o + Len(chunk) THEN Len(c) ELSE o + Len(chunk)
    IN  [i \in 1..n |->
            IF i > o /\ i <= o + Len(chunk) THEN chunk[i - o]
            ELSE IF i <= Len(c) THEN c[i] ELSE Nul]

LastComplete(c, old) == IF WellFormed(c) THEN Parse(c) ELSE old

\* ------------------------------------------------------------- queries
\* for blk in ledger["blocks"]: if blk["fileHash"] == fh: found = blk; break
RECURSIVE findByDocumentFrom(_, _, _)
findByDocumentFrom(blocks, i, fh) ==
    IF i > Len(blocks) THEN NoBlock
    ELSE IF blocks[i].fileHash = fh THEN blocks[i]
    ELSE findByDocumentFrom(blocks, i + 1, fh)

\* the scan without its break: the last match wins
RECURSIVE findByDocumentLastFrom(_, _, _, _)
findByDocumentLastFrom(blocks, i, fh, found) ==
    IF i > Len(blocks) THEN found
    ELSE IF blocks[i].fileHash = fh
         THEN findByDocumentLastFrom(blocks, i + 1, fh, blocks[i])
    ELSE findByDocumentLastFrom(blocks, i + 1, fh, found)

findByDocument_nobreak(blocks, fh) ==
    findByDocumentLastFrom(blocks, 1, fh, NoBlock)

findByDocument(blocks, fh) == findByDocumentFrom(blocks, 1, fh)

\* the loop of the try branch: index and blockHash of the parsed payload
RECURSIVE findByPayloadFrom(_, _, _, _)
findByPayloadFrom(blocks, i, index, blockHash) ==
    IF i > Len(blocks) THEN NoBlock
    ELSE IF blocks[i].index = index /\ blocks[i].blockHash = blockHash
         THEN blocks[i]
    ELSE findByPayloadFrom(blocks, i + 1, index, blockHash)

\* the try branch without its index test
RECURSIVE findByPayloadAnyFrom(_, _, _)
findByPayloadAnyFrom(blocks, i, blockHash) ==
    IF i > Len(blocks) THEN NoBlock
    ELSE IF blocks[i].blockHash = blockHash THEN blocks[i]
    ELSE findByPayloadAnyFrom(blocks, i + 1, blockHash)

findByPayload_anyindex(blocks, index, blockHash) ==
    findByPayloadAnyFrom(blocks, 1, blockHash)

findByPayload(blocks, index, blockHash) ==
    findByPayloadFrom(blocks, 1, index, blockHash)

\* the loop of the except branch: the text against either hash
RECURSIVE findByDigestFrom(_, _, _)
findByDigestFrom(blocks, i, h) ==
    IF i > Len(blocks) THEN NoBlock
    ELSE IF blocks[i].blockHash = h \/ blocks[i].fileHash = h THEN blocks[i]
    ELSE findByDigestFrom(blocks, i + 1, h)

findByDigest(blocks, h) == findByDigestFrom(blocks, 1, h)

\* ------------------------------------------------------------- inputs
NoUpload == <<>>
NoArg ==
    [raw |-> NoUpload, issuer |-> "", filename |-> "", pkind |-> "",
     pindex |-> -1, phash |-> BogusHash]

Res(k, b) == [kind |-> k, blk |-> b]

\* the hashes a user can have at hand: those of the issued blocks, those
\* of the documents, and one that belongs to nothing
BlockHashes == {issued[i].blk.blockHash : i \in 1..Len(issued)}

FileHashes == {sha256_bytes(b) : b \in Bytes}

IssueArgs ==
    {[NoArg EXCEPT !.raw = r, !.issuer = u, !.filename = f] :
        r \in Bytes \cup {NoUpload}, u \in Issuers, f \in Filenames}

UploadArgs == {[NoArg EXCEPT !.raw = r] : r \in Bytes}

\* the pasted text: a JSON object with index and blockHash, or anything
\* else (a bare hash does not parse, a JSON value that is no object has no
\* get: both end in the except branch)
PayloadArgs ==
    {[NoArg EXCEPT !.pkind = "json", !.pindex = i, !.phash = h] :
        i \in 0..(MaxIssues - 1), h \in BlockHashes \cup {BogusHash}}
    \cup {[NoArg EXCEPT !.pkind = "text", !.phash = h] :
            h \in BlockHashes \cup FileHashes}

QueryOps == {"verify_upload", "verify_payload", "view"}

\* ------------------------------------------------------------------ Init
Init ==
    /\ file = NoFile
    /\ clock = 0
    /\ pc = [s \in Sessions |-> "idle"]
    /\ phase = [s \in Sessions |-> "module"]
    /\ op = [s \in Sessions |-> "home"]
    /\ arg = [s \in Sessions |-> NoArg]
    /\ buf = [s \in Sessions |-> <<>>]
    /\ off = [s \in Sessions |-> 0]
    /\ wret = [s \in Sessions |-> "none"]
    /\ result = [s \in Sessions |-> Res("none", NoBlock)]
    /\ pending = [s \in Sessions |-> NoBlock]
    /\ nIssues = 0
    /\ issued = <<>>
    /\ persisted = <<>>
    /\ tampered = FALSE

AllIdle == \A s \in Sessions : pc[s] = "idle"

\* --------------------------------------------------------------- actions
\* a script run starts: the page is rendered for one click
StartRun(s, o, a) ==
    /\ pc[s] = "idle"
    /\ o = "issue" => nIssues < MaxIssues
    /\ pc' = [pc EXCEPT ![s] = "ens"]
    /\ phase' = [phase EXCEPT ![s] = "module"]
    /\ op' = [op EXCEPT ![s] = o]
    /\ arg' = [arg EXCEPT ![s] = a]
    /\ nIssues' = IF o = "issue" THEN nIssues + 1 ELSE nIssues
    /\ UNCHANGED <<file, clock, buf, off, wret, pending, result, issued,
                   persisted, tampered>>

Start(s) ==
    \/ StartRun(s, "home", NoArg)
    \/ \E a \in IssueArgs : StartRun(s, "issue", a)
    \/ \E a \in UploadArgs : StartRun(s, "verify_upload", a)
    \/ \E a \in PayloadArgs : StartRun(s, "verify_payload", a)
    \/ StartRun(s, "view", NoArg)

\* the handler of s is through: what is left of the script shows r
Finish(s, r) ==
    /\ pc' = [pc EXCEPT ![s] = "show"]
    /\ result' = [result EXCEPT ![s] = r]
    /\ phase' = [phase EXCEPT ![s] = "module"]
    /\ UNCHANGED <<op, arg>>
    /\ buf' = [buf EXCEPT ![s] = <<>>]
    /\ off' = [off EXCEPT ![s] = 0]
    /\ wret' = [wret EXCEPT ![s] = "none"]
    /\ pending' = [pending EXCEPT ![s] = NoBlock]

\* where a run goes when an ensure_ledger call returns
EnsureDone(s) ==
    IF phase[s] = "load" THEN
        /\ pc' = [pc EXCEPT ![s] = "read"]
        /\ buf' = [buf EXCEPT ![s] = <<>>]
        /\ off' = [off EXCEPT ![s] = 0]
        /\ wret' = [wret EXCEPT ![s] = "none"]
        /\ UNCHANGED <<phase, result, op, arg, pending>>
    ELSE IF op[s] = "home" THEN
        Finish(s, Res("none", NoBlock))
    ELSE IF op[s] = "issue" /\ arg[s].raw = NoUpload THEN
        Finish(s, Res("warning", NoBlock))
    ELSE
        /\ pc' = [pc EXCEPT ![s] = "ens"]
        /\ phase' = [phase EXCEPT ![s] = "load"]
        /\ buf' = [buf EXCEPT ![s] = <<>>]
        /\ off' = [off EXCEPT ![s] = 0]
        /\ wret' = [wret EXCEPT ![s] = "none"]
        /\ UNCHANGED <<result, op, arg, pending>>

\* ensure_ledger: os.path.exists(path)
EnsureCheck(s) ==
    /\ pc[s] = "ens"
    /\ IF file # NoFile
       THEN EnsureDone(s)
       ELSE /\ pc' = [pc EXCEPT ![s] = "w_open"]
            /\ buf' = [buf EXCEPT ![s] = Serialize(<<>>)]
            /\ wret' = [wret EXCEPT ![s] = "ensured"]
            /\ UNCHANGED <<phase, result, op, arg, off, pending>>
    /\ UNCHANGED <<file, clock, nIssues, issued, persisted, tampered>>

\* open(path, "w"): the file is created or truncated
OpenForWrite(s) ==
    /\ pc[s] = "w_open"
    /\ file' = <<>>
    /\ off' = [off EXCEPT ![s] = 0]
    /\ pc' = [pc EXCEPT ![s] = "w_write"]
    /\ persisted' = LastComplete(file', persisted)
    /\ UNCHANGED <<clock, phase, op, arg, buf, wret, result, pending, nIssues,
                   issued, tampered>>

\* json.dump: the buffered text reaches the file in one write or several;
\* after the last one the file is closed and the caller goes on
WriteChunk(s, k) ==
    /\ pc[s] = "w_write"
    /\ k \in 1..(Len(buf[s]) - off[s])
    /\ file' = WriteAt(file, off[s], SubSeq(buf[s], off[s] + 1, off[s] + k))
    /\ persisted' = LastComplete(file', persisted)
    /\ IF off[s] + k < Len(buf[s]) THEN
            /\ off' = [off EXCEPT ![s] = off[s] + k]
            /\ UNCHANGED <<pc, phase, op, arg, result, issued, buf, wret,
                           pending>>
       ELSE IF wret[s] = "ensured" THEN
            /\ EnsureDone(s)
            /\ UNCHANGED issued
       ELSE
            /\ Finish(s, Res("issued", pending[s]))
            /\ issued' = Append(issued, [raw |-> arg[s].raw, blk |-> pending[s]])
    /\ UNCHANGED <<clock, nIssues, tampered>>

\* the Issue handler after the load: lines 120-123, then save_ledger begins
IssueBuild(s, blocks, now) ==
    LET fileHash == sha256_bytes(arg[s].raw)
        prevHash == last_block_hash(blocks)
        newIndex == Len(blocks)
        block == make_block(newIndex, fileHash, prevHash, arg[s].issuer,
                            arg[s].filename, now)
    IN  /\ clock' = now
        /\ pending' = [pending EXCEPT ![s] = block]
        /\ buf' = [buf EXCEPT ![s] = Serialize(Append(blocks, block))]
        /\ wret' = [wret EXCEPT ![s] = "saved"]
        /\ pc' = [pc EXCEPT ![s] = "w_open"]
        /\ UNCHANGED <<result, phase, op, arg, off>>

VerifyUpload(s, blocks) ==
    LET fh == sha256_bytes(arg[s].raw)
        found == findByDocument(blocks, fh)
    IN  Finish(s, IF found # NoBlock THEN Res("verified", found)
                  ELSE Res("not_verified", NoBlock))

VerifyPayload(s, blocks) ==
    LET hit == IF arg[s].pkind = "json"
               THEN findByPayload(blocks, arg[s].pindex, arg[s].phash)
               ELSE findByDigest(blocks, arg[s].phash)
    IN  Finish(s, IF hit = NoBlock THEN Res("no_match", NoBlock)
                  ELSE IF arg[s].pkind = "json" THEN Res("block_found", hit)
                  ELSE Res("hash_found", hit))

ViewLedger(s, blocks) == Finish(s, Res("viewed", NoBlock))

\* now_iso(): the clock never runs backwards between two readings
now_iso == clock..MaxClock

\* load_ledger after its ensure_ledger: open, json.load, then the handler
Load(s) ==
    /\ pc[s] = "read"
    /\ IF ~WellFormed(file) THEN
            Finish(s, Res("JSONDecodeError", NoBlock)) /\ UNCHANGED clock
       ELSE IF op[s] = "issue" THEN
            \E now \in now_iso : IssueBuild(s, Parse(file), now)
       ELSE IF op[s] = "verify_upload" THEN
            VerifyUpload(s, Parse(file)) /\ UNCHANGED clock
       ELSE IF op[s] = "verify_payload" THEN
            VerifyPayload(s, Parse(file)) /\ UNCHANGED clock
       ELSE ViewLedger(s, Parse(file)) /\ UNCHANGED clock
    /\ UNCHANGED <<file, nIssues, issued, persisted, tampered>>

\* an I/O error inside save_ledger, at the open or at a write: the
\* exception leaves the with block and ends the run
SaveFail(s) ==
    /\ pc[s] \in {"w_open", "w_write"}
    /\ wret[s] = "saved"
    /\ Finish(s, Res("OSError", NoBlock))
    /\ UNCHANGED <<file, clock, nIssues, issued, persisted, tampered>>

\* the script reaches its last line
EndRun(s) ==
    /\ pc[s] = "show"
    /\ pc' = [pc EXCEPT ![s] = "idle"]
    /\ op' = [op EXCEPT ![s] = "home"]
    /\ arg' = [arg EXCEPT ![s] = NoArg]
    /\ result' = [result EXCEPT ![s] = Res("none", NoBlock)]
    /\ UNCHANGED <<file, clock, phase, buf, off, wret, pending, nIssues,
                   issued, persisted, tampered>>

Step(s) ==
    \/ EnsureCheck(s)
    \/ OpenForWrite(s)
    \/ \E k \in 1..(MaxIssues + 2) : WriteChunk(s, k)
    \/ Load(s)
    \/ EndRun(s)

\* sessions of several browsers run their scripts in parallel threads
Next ==
    \/ \E s \in Sessions : Start(s)
    \/ \E s \in Sessions : Step(s)

Spec == Init /\ [][Next]_vars

\* one script run at a time
NextSeq ==
    \/ AllIdle /\ \E s \in Sessions : Start(s)
    \/ \E s \in Sessions : Step(s)

SpecSeq == Init /\ [][NextSeq]_vars

\* one script run at a time, and save_ledger may fail
NextFail ==
    \/ AllIdle /\ \E s \in Sessions : Start(s)
    \/ \E s \in Sessions : Step(s)
    \/ \E s \in Sessions : SaveFail(s)

SpecFail == Init /\ [][NextFail]_vars

\* ledger.json edited by hand between two runs: one field of one block
TamperFields ==
    {"index", "timestamp", "issuer", "filename", "fileHash", "prevHash"}

TamperBlock(blk, f) ==
    IF f = "index" THEN [blk EXCEPT !.index = blk.index + 1]
    ELSE IF f = "timestamp" THEN [blk EXCEPT !.timestamp = blk.timestamp + 1]
    ELSE IF f = "issuer" THEN [blk EXCEPT !.issuer = "Mallory"]
    ELSE IF f = "filename" THEN [blk EXCEPT !.filename = "other.pdf"]
    ELSE IF f = "fileHash" THEN [blk EXCEPT !.fileHash = sha256_bytes(<<0>>)]
    ELSE [blk EXCEPT !.prevHash = BogusHash]

Tamper(i, f) ==
    /\ AllIdle
    /\ ~tampered
    /\ WellFormed(file)
    /\ i \in 1..Len(Parse(file))
    /\ file' = Serialize([Parse(file) EXCEPT ![i] = TamperBlock(@, f)])
    /\ tampered' = TRUE
    /\ persisted' = LastComplete(file', persisted)
    /\ UNCHANGED <<clock, pc, phase, op, arg, buf, off, wret, result, pending,
                   nIssues, issued>>

NextTamper ==
    \/ AllIdle /\ \E s \in Sessions : Start(s)
    \/ \E s \in Sessions : Step(s)
    \/ \E i \in 1..MaxIssues, f \in TamperFields : Tamper(i, f)

SpecTamper == Init /\ [][NextTamper]_vars

\* ---------------------------------------------------------------- claims
Min(S) == CHOOSE x \in S : \A y \in S : x <= y

IsPrefix(a, b) == Len(a) <= Len(b) /\ \A i \in 1..Len(a) : a[i] = b[i]

HashOK(blk) == blk.blockHash = BlockDigest(BodyOf(blk))

Valid(blocks) ==
    \A i \in 1..Len(blocks) :
        /\ blocks[i].index = i - 1
        /\ blocks[i].prevHash =
             (IF i = 1 THEN ZeroHash ELSE blocks[i - 1].blockHash)
        /\ HashOK(blocks[i])

ExpectedShape(c) ==
    WellFormed(c) /\ \A i \in 1..Len(Parse(c)) : Parse(c)[i].index = i - 1

Saving(s) == pc[s] \in {"w_open", "w_write"} /\ wret[s] = "saved"

VerifiedKinds == {"verified", "block_found", "hash_found"}

\* C1: of the issue operations that build their block against the same tip
\* (the same index and the same prevHash) at most one is accepted: no two
\* issues that reported success carry the same index and prevHash.
C1_NoFork ==
    \A i, j \in 1..Len(issued) :
        i # j => ~(/\ issued[i].blk.index = issued[j].blk.index
                   /\ issued[i].blk.prevHash = issued[j].blk.prevHash)

\* C2: the persisted ledger is append-only across issue operations: no step
\* of an issue operation takes the complete persisted block list to one
\* that changes or drops a block; the list only grows at its tail.
C2_AppendOnly ==
    [][\A s \in Sessions :
          (op[s] = "issue" /\ Step(s)) => IsPrefix(persisted, persisted')]_vars

\* C3: every ledger reached from the empty one by a sequence of issue
\* operations is Valid: genesis prevHash is the zero sentinel, every later
\* prevHash is the previous blockHash, index equals position, and blockHash
\* is the hash of the sorted-key encoding of the other fields.  This is so
\* for the ledger in the file and for the one an issue is about to save.
C3_ChainValid ==
    /\ WellFormed(file) => Valid(Parse(file))
    /\ \A s \in Sessions : Saving(s) => Valid(Parse(buf[s]))

C3_Witness ==
    /\ WellFormed(file)
    /\ Len(Parse(file)) >= 2
    /\ Parse(file)[2].prevHash = Parse(file)[1].blockHash

\* C4: a ledger holding a block whose stored blockHash no longer matches
\* its fields is never reported as verified by a verify operation.
C4_TamperDetected ==
    \A s \in Sessions :
        (/\ pc[s] = "show"
         /\ WellFormed(file)
         /\ \E i \in 1..Len(Parse(file)) : ~HashOK(Parse(file)[i]))
        => result[s].kind \notin VerifiedKinds

\* C5: verify by upload shows a block exactly when an earlier issue of the
\* same bytes was recorded, and then the block of the earliest such issue,
\* which no block of the ledger with that fileHash precedes; for bytes never
\* issued it shows no match.
C5_LookupCorrect ==
    \A s \in Sessions :
        (pc[s] = "show" /\ op[s] = "verify_upload") =>
            LET hits == {i \in 1..Len(issued) : issued[i].raw = arg[s].raw}
                blocks == Parse(file)
            IN  IF hits = {} THEN result[s] = Res("not_verified", NoBlock)
                ELSE /\ result[s] = Res("verified", issued[Min(hits)].blk)
                     /\ \E i \in 1..Len(blocks) :
                            /\ blocks[i] = result[s].blk
                            /\ \A j \in 1..(i - 1) :
                                 blocks[j].fileHash # blocks[i].fileHash

C5_Witness ==
    \E s \in Sessions :
        /\ pc[s] = "show"
        /\ op[s] = "verify_upload"
        /\ result[s].kind = "verified"
        /\ Cardinality({i \in 1..Len(issued) :
                            issued[i].raw = arg[s].raw}) >= 2

\* C6: verify by payload with a structured payload {index, blockHash} shows
\* a block only if the block at exactly that position has exactly that
\* blockHash, and it never shows the result of the raw-hash lookup.
C6_PayloadBinding ==
    \A s \in Sessions :
        (pc[s] = "show" /\ op[s] = "verify_payload" /\ arg[s].pkind = "json")
        => /\ result[s].kind \in {"block_found", "no_match"}
           /\ result[s].kind = "block_found" =>
                /\ arg[s].pindex + 1 \in 1..Len(Parse(file))
                /\ Parse(file)[arg[s].pindex + 1].blockHash = arg[s].phash
                /\ result[s].blk = Parse(file)[arg[s].pindex + 1]

C6_Witness ==
    \E s \in Sessions :
        /\ pc[s] = "show"
        /\ op[s] = "verify_payload"
        /\ arg[s].pkind = "json"
        /\ result[s].kind = "no_match"
        /\ \E j \in 1..Len(Parse(file)) :
              /\ Parse(file)[j].blockHash = arg[s].phash
              /\ j - 1 # arg[s].pindex
              /\ arg[s].pindex + 1 \in 1..Len(Parse(file))

\* C7: a load that runs while another session is inside save_ledger (and
\* no session is inside the write of ensure_ledger) never reads a partially
\* written or truncated file: what it reads is a complete ledger.
C7_NoTornRead ==
    [][\A s \in Sessions :
          (/\ pc[s] = "read" /\ pc'[s] # "read"
           /\ \E t \in Sessions : Saving(t)
           /\ \A t \in Sessions : pc[t] \in {"w_open", "w_write"} => Saving(t))
          => WellFormed(file)]_vars

\* C8: when save_ledger fails, the file afterwards is the complete ledger
\* that was persisted before the failed write.
C8_FailedSaveKeepsLedger ==
    \A s \in Sessions :
        (pc[s] = "show" /\ result[s].kind = "OSError")
        => file = Serialize(persisted)

\* C9: a load of persisted data that does not have the expected shape ends
\* the run with an error; no handler goes on with such a ledger.
C9_CorruptRejected ==
    [][\A s \in Sessions :
          (pc[s] = "read" /\ pc'[s] # "read" /\ ~ExpectedShape(file))
          => (pc'[s] = "show" /\ result'[s].kind = "JSONDecodeError")]_vars

\* C10: no step of a run of a query operation (verify by upload, verify
\* by payload or hash, view ledger), its ensure_ledger calls
\* included, changes the persisted block sequence.
C10_QueriesReadOnly ==
    [][\A s \in Sessions :
          (op[s] \in QueryOps /\ Step(s)) => persisted' = persisted]_vars

====
